---------------------------- MODULE Spec2Model ----------------------------
(***************************************************************************)
(* A model of src/app.py, the B2B lead generator: the lead-extraction       *)
(* pipeline get_leads_from_serpapi with the helpers it calls, and the       *)
(* exclude-domains filter of the main script.                               *)
(*                                                                          *)
(* Text is modelled character by character: a Python str is a sequence of   *)
(* one-character strings, so "ab" is <<"a","b">>.  The three non-ASCII      *)
(* characters the source uses are written "endash", "emdash", "bullet".     *)
(* Regular expressions are modelled by a backtracking matcher that returns  *)
(* the end positions of a pattern in the order Python's re tries them, so   *)
(* greedy and lazy quantifiers, alternation and groups give the match that  *)
(* re.search gives.                                                         *)
(***************************************************************************)
EXTENDS Integers, Sequences, FiniteSets, TLC

(***************************************************************************)
(* State                                                                    *)
(***************************************************************************)
VARIABLES
  SERPAPI_KEY, PROXYCURL_API_KEY,   \* the two credentials
  pc,                 \* where the run stands
  exc,                \* the call whose exception left get_leads_from_serpapi
  reported,           \* st.error was called
  search_gets,        \* the search GETs issued
  page_gets,          \* the page GETs issued for the current result
  enrich_gets,        \* the enrichment GETs issued for the current result
  warned,             \* the helpers whose except clause ran for the current result
  results, i,         \* the organic results and the number of the current one
  title, link, snippet, name, role, company,
  email_from_snippet, phone_from_snippet,
  page_response,      \* what the page GET of the current result met
  email_from_page, phone_from_page,
  domain, guessed_email, final_email, phone, summary, enriched_data,
  leads,              \* the list get_leads_from_serpapi builds and returns
  exclude_domains,    \* the text of the Exclude Domains field
  current_leads,      \* st.session_state.current_leads, as the list of its rows
  search_history      \* st.session_state.search_history

(***************************************************************************)
(* Characters                                                               *)
(***************************************************************************)
LowerSeq ==
  <<"a","b","c","d","e","f","g","h","i","j","k","l","m",
    "n","o","p","q","r","s","t","u","v","w","x","y","z">>

UpperSeq ==
  <<"A","B","C","D","E","F","G","H","I","J","K","L","M",
    "N","O","P","Q","R","S","T","U","V","W","X","Y","Z">>

Range(f) == { f[ix] : ix \in DOMAIN f }

LowerCh == Range(LowerSeq)

UpperCh == Range(UpperSeq)

DigitCh == {"0","1","2","3","4","5","6","7","8","9"}

SpaceCh == {" ", "newline", "tab"}

PunctCh ==
  {".", "-", "@", "+", "(", ")", "|", "/", ":", ",", "%", "_", "?", "=",
   "endash", "emdash", "bullet"}

\* \w of a str pattern
WordCh == LowerCh \cup UpperCh \cup DigitCh \cup {"_"}

AnyCh == WordCh \cup SpaceCh \cup PunctCh

IndexIn(f, c) == CHOOSE ix \in DOMAIN f : f[ix] = c

\* str.lower() and str.upper() of one character
LowerOf(c) == IF c \in UpperCh THEN LowerSeq[IndexIn(UpperSeq, c)] ELSE c

UpperOf(c) == IF c \in LowerCh THEN UpperSeq[IndexIn(LowerSeq, c)] ELSE c

(***************************************************************************)
(* str operations                                                           *)
(***************************************************************************)
\* s[a:b] with 1-based inclusive start a and exclusive end b; as in Python an
\* end beyond the string is the end of the string
Slice(s, a, b) ==
  LET e == IF b > Len(s) + 1 THEN Len(s) + 1 ELSE b
  IN  IF e <= a THEN <<>> ELSE SubSeq(s, a, e - 1)

\* needle in s
Contains(s, needle) ==
  \E ix \in 1..(Len(s) - Len(needle) + 1) :
    \A k \in 1..Len(needle) : s[ix + k - 1] = needle[k]

\* s.lower()
Lower(s) == [ix \in 1..Len(s) |-> LowerOf(s[ix])]

\* s.title(): a letter that follows a letter is lowered, any other letter is raised
Title(s) ==
  [ix \in 1..Len(s) |->
     IF ix > 1 /\ s[ix - 1] \in (LowerCh \cup UpperCh)
       THEN LowerOf(s[ix]) ELSE UpperOf(s[ix])]

\* w.istitle()
IsTitle(w) ==
  /\ \E ix \in 1..Len(w) : w[ix] \in (LowerCh \cup UpperCh)
  /\ \A ix \in 1..Len(w) :
       LET prevCased == ix > 1 /\ w[ix - 1] \in (LowerCh \cup UpperCh)
       IN  /\ w[ix] \in UpperCh => ~prevCased
           /\ w[ix] \in LowerCh => prevCased

RECURSIVE LStrip(_)
LStrip(s) == IF s # <<>> /\ Head(s) \in SpaceCh THEN LStrip(Tail(s)) ELSE s

RECURSIVE RStrip(_)
RStrip(s) ==
  IF s # <<>> /\ s[Len(s)] \in SpaceCh THEN RStrip(SubSeq(s, 1, Len(s) - 1)) ELSE s

\* s.strip()
Strip(s) == RStrip(LStrip(s))

\* s.split(): the maximal runs of non-whitespace, in order
RECURSIVE SplitWs(_)
SplitWs(s) ==
  LET t == LStrip(s)
      stops == { ix \in 1..Len(t) : t[ix] \in SpaceCh }
      e == IF stops = {} THEN Len(t) + 1
           ELSE CHOOSE ix \in stops : \A j \in stops : ix <= j
  IN  IF t = <<>> THEN <<>>
      ELSE <<Slice(t, 1, e)>> \o SplitWs(Slice(t, e, Len(t) + 1))

\* s.split(sep) for a non-empty separator
RECURSIVE SplitOn(_, _)
SplitOn(s, sep) ==
  LET hits == { ix \in 1..(Len(s) - Len(sep) + 1) :
                  \A k \in 1..Len(sep) : s[ix + k - 1] = sep[k] }
      h == CHOOSE ix \in hits : \A j \in hits : ix <= j
  IN  IF hits = {} THEN <<s>>
      ELSE <<Slice(s, 1, h)>> \o SplitOn(Slice(s, h + Len(sep), Len(s) + 1), sep)

\* sep.join(parts)
RECURSIVE Join(_, _)
Join(sep, parts) ==
  IF parts = <<>> THEN <<>>
  ELSE IF Len(parts) = 1 THEN parts[1]
  ELSE parts[1] \o sep \o Join(sep, Tail(parts))

(***************************************************************************)
(* Regular expressions.  A pattern is a record; Ends(r, s, i) is the         *)
(* sequence of positions at which a match of r that starts at position i of *)
(* s can end, in the order the backtracking matcher of re tries them.       *)
(***************************************************************************)
Cls(S) == [op |-> "cls", set |-> S]

Ch(c) == Cls({c})

Cat(rs) == [op |-> "cat", args |-> rs]

Alt(rs) == [op |-> "alt", args |-> rs]

\* r{lo,hi}, hi = -1 for no upper limit; lazy for the ? suffix
Rep(r, lo, hi, lazy) == [op |-> "rep", arg |-> r, lo |-> lo, hi |-> hi, lazy |-> lazy]

Plus(r) == Rep(r, 1, -1, FALSE)

Star(r) == Rep(r, 0, -1, FALSE)

LazyStar(r) == Rep(r, 0, -1, TRUE)

Opt(r) == Rep(r, 0, 1, FALSE)

WordB == [op |-> "wordb"]

Bol == [op |-> "bol"]

Eol == [op |-> "eol"]

\* a literal word
Lit(w) == Cat([ix \in 1..Len(w) |-> Ch(w[ix])])

\* \s, \w, \d
ReS == Cls(SpaceCh)

ReW == Cls(WordCh)

ReD == Cls(DigitCh)

IsWordAt(s, ix) == ix >= 1 /\ ix <= Len(s) /\ s[ix] \in WordCh

\* the least element of a non-empty set of integers
Least(S) == CHOOSE ix \in S : \A j \in S : ix <= j

\* the number of characters of s from position i on that lie in set
RunLen(s, ix, set) ==
  LET stops == { j \in ix..Len(s) : s[j] \notin set }
  IN  IF stops = {} THEN Len(s) + 1 - ix ELSE Least(stops) - ix

\* the ends of a character class repeated between lo and top times: ix + n for
\* each count n, the longest first when greedy and the shortest first when lazy
CountedEnds(ix, lo, top, lazy) ==
  [k \in 1..(IF top < lo THEN 0 ELSE top - lo + 1) |->
     IF lazy THEN ix + lo + k - 1 ELSE ix + top - k + 1]

\* the smaller of the run and the limit hi, where hi = -1 is no limit
Capped(run, hi) == IF hi >= 0 /\ hi < run THEN hi ELSE run

ClsRepEnds(r, s, ix) ==
  CountedEnds(ix, r.lo, Capped(RunLen(s, ix, r.arg.set), r.hi), r.lazy)

RECURSIVE Ends(_, _, _)
RECURSIVE CatEnds(_, _, _, _)
RECURSIVE AltEnds(_, _, _, _)
RECURSIVE RepEnds(_, _, _, _)
RECURSIVE RepMore(_, _, _, _, _)

Ends(r, s, ix) ==
  CASE r.op = "cls"   -> IF ix <= Len(s) /\ s[ix] \in r.set THEN <<ix + 1>> ELSE <<>>
    [] r.op = "cat"   -> CatEnds(r.args, 1, s, <<ix>>)
    [] r.op = "alt"   -> AltEnds(r.args, 1, s, ix)
    [] r.op = "rep"   -> IF r.arg.op = "cls" THEN ClsRepEnds(r, s, ix)
                         ELSE RepEnds(r, s, ix, 0)
    [] r.op = "wordb" -> IF IsWordAt(s, ix - 1) # IsWordAt(s, ix) THEN <<ix>> ELSE <<>>
    [] r.op = "bol"   -> IF ix = 1 THEN <<ix>> ELSE <<>>
    [] r.op = "eol"   -> IF ix = Len(s) + 1 THEN <<ix>> ELSE <<>>

\* the ends of args[k..] started from each of the positions starts, in order
CatEnds(args, k, s, starts) ==
  IF starts = <<>> THEN <<>>
  ELSE IF k > Len(args) THEN starts
  ELSE IF Len(starts) = 1 THEN CatEnds(args, k + 1, s, Ends(args[k], s, starts[1]))
  ELSE LET h == Len(starts) \div 2
       IN  CatEnds(args, k, s, SubSeq(starts, 1, h))
             \o CatEnds(args, k, s, SubSeq(starts, h + 1, Len(starts)))

AltEnds(args, k, s, ix) ==
  IF k > Len(args) THEN <<>>
  ELSE Ends(args[k], s, ix) \o AltEnds(args, k + 1, s, ix)

\* n repetitions are matched and the matcher stands at i
RepEnds(r, s, ix, n) ==
  LET here == IF n >= r.lo THEN <<ix>> ELSE <<>>
      more == IF r.hi >= 0 /\ n >= r.hi THEN <<>>
              ELSE RepMore(r, s, Ends(r.arg, s, ix), ix, n)
  IN  IF r.lazy THEN here \o more ELSE more \o here

\* one more repetition, ending at each of the positions es (an empty
\* repetition is not repeated)
RepMore(r, s, es, ix, n) ==
  IF es = <<>> THEN <<>>
  ELSE (IF Head(es) > ix THEN RepEnds(r, s, Head(es), n + 1) ELSE <<>>)
         \o RepMore(r, s, Tail(es), ix, n)

\* re.search(pre + "(" + grp + ")" + suf, s): the match of leftmost start and
\* of first preference, as [found, start, gstart, gend, end]
NoMatch == [found |-> FALSE, start |-> 0, gstart |-> 0, gend |-> 0, end |-> 0]

\* the first match of a family of attempts, in the order of their indices
FirstFound(ms) ==
  LET good == { k \in DOMAIN ms : ms[k].found }
  IN  IF good = {} THEN NoMatch ELSE ms[Least(good)]

\* the match whose group is s[a:b], given the ends es of the suffix after b
MatchOf(ix, a, b, es) ==
  IF es = <<>> THEN NoMatch
  ELSE [found |-> TRUE, start |-> ix, gstart |-> a, gend |-> b, end |-> Head(es)]

\* the first group end among bs after which suf matches
FirstSuf(suf, s, ix, a, bs) ==
  FirstFound([j \in DOMAIN bs |-> MatchOf(ix, a, bs[j], Ends(suf, s, bs[j]))])

\* the first prefix end among as after which grp and suf match
FirstGrp(grp, suf, s, ix, as) ==
  FirstFound([j \in DOMAIN as |-> FirstSuf(suf, s, ix, as[j], Ends(grp, s, as[j]))])

\* the match at the leftmost start that is not before position from
MatchAt(pre, grp, suf, s, from) ==
  FirstFound([ix \in from..(Len(s) + 1) |-> FirstGrp(grp, suf, s, ix, Ends(pre, s, ix))])

Empty == Cat(<<>>)

\* re.search(pattern, s) of a pattern whose group 1 is grp
ReSearchGroup(pre, grp, suf, s) == MatchAt(pre, grp, suf, s, 1)

\* re.search(pattern, s) of a pattern read for group 0 only
ReSearch(r, s) == MatchAt(Empty, r, Empty, s, 1)

\* match.group(1), and match.group(0)
Group1(m, s) == Slice(s, m.gstart, m.gend)

Group0(m, s) == Slice(s, m.start, m.end)

(***************************************************************************)
(* Values of the search response.  A field of a result is any JSON value;   *)
(* kind tells a str from null and from a number, text is what an f-string   *)
(* prints for it.                                                           *)
(***************************************************************************)
Str(t) == [kind |-> "str", text |-> t]

Null == [kind |-> "null", text |-> <<"N","o","n","e">>]

Num(t) == [kind |-> "int", text |-> t]

\* not v
Falsy(v) ==
  \/ v.kind = "null"
  \/ v.kind = "str" /\ v.text = <<>>
  \/ v.kind = "int" /\ v.text = <<"0">>

\* the outcome of a call: a value returned, or an exception raised
Ret(v) == [ok |-> TRUE, val |-> v]

Raise == [ok |-> FALSE, val |-> <<>>]

(***************************************************************************)
(* Contact extraction                                                       *)
(***************************************************************************)
MailCh == Cls(WordCh \cup {".", "-"})

\* [\w\.-]+@[\w\.-]+\.\w+
EMAIL_REGEX == Cat(<<Plus(MailCh), Ch("@"), Plus(MailCh), Ch("."), Plus(ReW)>>)

\* the 8 of {8,} in PHONE_REGEX
MinPhoneInner == 8

\* \+?\d[\d\s\-\(\)]{8,}\d
PHONE_REGEX ==
  Cat(<<Opt(Ch("+")), ReD,
        Rep(Cls(DigitCh \cup SpaceCh \cup {"-", "(", ")"}), MinPhoneInner, -1, FALSE),
        ReD>>)

\* re.findall(pattern, text)[0] if any else "": the leftmost match
FirstMatch(pattern, text) == Group0(ReSearch(pattern, text), text)

\* re.findall raises TypeError on a text that is no str
extract_email_from_text(text) ==
  IF text.kind # "str" THEN Raise ELSE Ret(FirstMatch(EMAIL_REGEX, text.text))

extract_phone_from_text(text) ==
  IF text.kind # "str" THEN Raise ELSE Ret(FirstMatch(PHONE_REGEX, text.text))

(***************************************************************************)
(* Name, role and company heuristics                                        *)
(***************************************************************************)
CapWord == Cat(<<Cls(UpperCh), Plus(Cls(LowerCh))>>)

\* f"{title} {snippet}"
TitleAndSnippet(ttl, snip) == ttl.text \o <<" ">> \o snip.text

\* name_patterns, each as <<prefix, group 1, suffix>>
name_patterns ==
  << <<Empty,
       Cat(<<CapWord, Ch(" "), CapWord>>),
       Alt(<<Cat(<<Plus(ReS), Cls({"-", "|"})>>),
             Cat(<<Plus(ReS), Lit(<<"a","t">>), Plus(ReS)>>),
             Cat(<<Plus(ReS), Ch("|")>>)>>)>>,
     <<Bol, Cat(<<CapWord, Ch(" "), CapWord>>), Empty>>,
     <<Empty,
       Cat(<<CapWord, Plus(ReS), CapWord>>),
       Cat(<<Plus(ReS), Cls({"-", "endash", "emdash"})>>)>> >>

exclude_words ==
  <<<<"M","a","n","a","g","e","r">>, <<"D","i","r","e","c","t","o","r">>, <<"H","e","a","d">>, <<"C","h","i","e","f">>, <<"S","e","n","i","o","r">>, <<"J","u","n","i","o","r">>, <<"L","e","a","d">>>>

fallback_stop_words == {<<"m","a","n","a","g","e","r">>, <<"e","n","g","i","n","e","e","r">>, <<"h","e","a","d">>, <<"d","i","r","e","c","t","o","r">>}

\* name_parts[:2]
FirstTwo(ws) == SubSeq(ws, 1, IF Len(ws) < 2 THEN Len(ws) ELSE 2)

\* the fallback of extract_name; title.split raises on a title that is no str
NameFallback(ttl) ==
  IF Falsy(ttl) THEN Ret(<<>>)
  ELSE IF ttl.kind # "str" THEN Raise
  ELSE LET parts == SplitWs(SplitOn(ttl.text, <<" ","a","t"," ">>)[1])
           name_parts ==
             SelectSeq(parts,
               LAMBDA w : /\ IsTitle(w)
                          /\ Len(w) > 2
                          /\ Lower(w) \notin fallback_stop_words)
       IN  Ret(Join(<<" ">>, FirstTwo(name_parts)))

RECURSIVE NameFrom(_, _, _)
RECURSIVE NameOr(_, _, _, _)

\* the name_patterns from the k-th on, then the fallback
NameFrom(k, text, ttl) ==
  IF k > Len(name_patterns) THEN NameFallback(ttl)
  ELSE NameOr(ReSearchGroup(name_patterns[k][1], name_patterns[k][2],
                            name_patterns[k][3], text), k, text, ttl)

\* group 1 of the match m of the k-th pattern unless it holds an excluded word
NameOr(m, k, text, ttl) ==
  IF m.found /\ \A j \in DOMAIN exclude_words : ~Contains(Group1(m, text), exclude_words[j])
    THEN Ret(Group1(m, text))
    ELSE NameFrom(k + 1, text, ttl)

extract_name(ttl, snip) == NameFrom(1, TitleAndSnippet(ttl, snip), ttl)

\* word followed by \s+
Ws(w) == Cat(<<Lit(w), Plus(ReS)>>)

role_patterns ==
  << Cat(<<WordB,
           Alt(<<Cat(<<Ws(<<"c","h","i","e","f">>), Plus(ReW), Plus(ReS), Lit(<<"o","f","f","i","c","e","r">>)>>),
                 Lit(<<"c","e","o">>), Lit(<<"c","t","o">>), Lit(<<"c","f","o">>), Lit(<<"c","m","o">>)>>),
           WordB>>),
     Cat(<<WordB, Alt(<<Cat(<<Ws(<<"v","i","c","e">>), Lit(<<"p","r","e","s","i","d","e","n","t">>)>>), Lit(<<"v","p">>)>>), WordB>>),
     Cat(<<WordB,
           Opt(Alt(<<Ws(<<"s","e","n","i","o","r">>), Ws(<<"l","e","a","d">>), Ws(<<"p","r","i","n","c","i","p","a","l">>)>>)),
           Alt(<<Lit(<<"m","a","n","a","g","e","r">>), Lit(<<"d","i","r","e","c","t","o","r">>), Lit(<<"h","e","a","d">>), Lit(<<"l","e","a","d">>)>>),
           WordB>>),
     Cat(<<WordB,
           Opt(Alt(<<Ws(<<"h","r">>), Cat(<<Ws(<<"h","u","m","a","n">>), Ws(<<"r","e","s","o","u","r","c","e","s">>)>>)>>)),
           Alt(<<Lit(<<"m","a","n","a","g","e","r">>), Lit(<<"s","p","e","c","i","a","l","i","s","t">>), Lit(<<"d","i","r","e","c","t","o","r">>)>>),
           WordB>>),
     Cat(<<WordB,
           Opt(Alt(<<Ws(<<"s","a","l","e","s">>), Ws(<<"m","a","r","k","e","t","i","n","g">>),
                     Cat(<<Ws(<<"b","u","s","i","n","e","s","s">>), Ws(<<"d","e","v","e","l","o","p","m","e","n","t">>)>>)>>)),
           Alt(<<Lit(<<"m","a","n","a","g","e","r">>), Lit(<<"e","x","e","c","u","t","i","v","e">>), Lit(<<"d","i","r","e","c","t","o","r">>)>>),
           WordB>>),
     Cat(<<WordB,
           Opt(Alt(<<Ws(<<"s","o","f","t","w","a","r","e">>), Ws(<<"s","e","n","i","o","r">>), Ws(<<"l","e","a","d">>)>>)),
           Alt(<<Lit(<<"e","n","g","i","n","e","e","r">>), Lit(<<"d","e","v","e","l","o","p","e","r">>), Lit(<<"a","r","c","h","i","t","e","c","t">>)>>),
           WordB>>),
     Cat(<<WordB, Opt(Alt(<<Ws(<<"p","r","o","j","e","c","t">>), Ws(<<"p","r","o","g","r","a","m">>)>>)), Lit(<<"m","a","n","a","g","e","r">>), WordB>>),
     Cat(<<WordB,
           Alt(<<Lit(<<"c","o","n","s","u","l","t","a","n","t">>), Lit(<<"a","n","a","l","y","s","t">>), Lit(<<"s","p","e","c","i","a","l","i","s","t">>),
                 Lit(<<"c","o","o","r","d","i","n","a","t","o","r">>), Lit(<<"r","e","c","r","u","i","t","e","r">>)>>),
           WordB>>) >>

RECURSIVE RoleFrom(_, _)
RECURSIVE RoleOr(_, _, _)

\* the role_patterns from the k-th on
RoleFrom(k, text) ==
  IF k > Len(role_patterns) THEN <<>>
  ELSE RoleOr(ReSearch(role_patterns[k], text), k, text)

\* match.group(0).title() of the match m of the k-th pattern
RoleOr(m, k, text) ==
  IF m.found THEN Title(Group0(m, text)) ELSE RoleFrom(k + 1, text)

clean_role(ttl, snip) == RoleFrom(1, Lower(TitleAndSnippet(ttl, snip)))

NotBar == Cls(AnyCh \ {"|"})

company_indicators ==
  <<<<"I","n","c">>, <<"L","t","d">>, <<"L","L","C">>, <<"C","o","r","p">>, <<"C","o","r","p","o","r","a","t","i","o","n">>, <<"T","e","c","h","n","o","l","o","g","i","e","s">>,
    <<"S","o","l","u","t","i","o","n","s">>, <<"S","e","r","v","i","c","e","s">>, <<"S","y","s","t","e","m","s">>, <<"G","r","o","u","p">>, <<"C","o","n","s","u","l","t","i","n","g">>>>

RECURSIVE CompanyFrom(_, _)
RECURSIVE CompanyOr(_, _, _)

\* the company_indicators from the k-th on
CompanyFrom(k, text) ==
  IF k > Len(company_indicators) THEN <<>>
  ELSE CompanyOr(ReSearchGroup(WordB,
                   Cat(<<Cls(UpperCh), LazyStar(NotBar), Lit(company_indicators[k])>>),
                   WordB, text), k, text)

\* match.group(1).strip() of the match m of the k-th indicator
CompanyOr(m, k, text) ==
  IF m.found THEN Strip(Group1(m, text)) ELSE CompanyFrom(k + 1, text)

\* at_match.group(1).strip(), or else the indicators
CompanyAt(at_match, text) ==
  IF at_match.found THEN Strip(Group1(at_match, text)) ELSE CompanyFrom(1, text)

\* \bat\s+([A-Z][^|]*?)(?:\s*[-|bullet]|$)
clean_company(ttl, snip) ==
  CompanyAt(ReSearchGroup(Cat(<<WordB, Lit(<<"a","t">>), Plus(ReS)>>),
                          Cat(<<Cls(UpperCh), LazyStar(NotBar)>>),
                          Alt(<<Cat(<<Star(ReS), Cls({"-", "|", "bullet"})>>), Eol>>),
                          TitleAndSnippet(ttl, snip)),
            TitleAndSnippet(ttl, snip))

(***************************************************************************)
(* Confidence, domain and guessed email                                     *)
(***************************************************************************)
DigitSeq == <<"0","1","2","3","4","5","6","7","8","9">>

\* str(n) for n >= 0
RECURSIVE IntStr(_)
IntStr(n) ==
  IF n < 10 THEN <<DigitSeq[n + 1]>> ELSE IntStr(n \div 10) \o <<DigitSeq[(n % 10) + 1]>>

\* int(s) for a string of digits
RECURSIVE ParseInt(_)
ParseInt(s) ==
  IF s = <<>> THEN 0
  ELSE 10 * ParseInt(SubSeq(s, 1, Len(s) - 1)) + (IndexIn(DigitSeq, s[Len(s)]) - 1)

\* the score of each field that is present
FieldScore == 25

\* the score when the company is left out of the count
score_without_company(nm, rl, co, email) ==
  LET score == (IF nm # <<>> THEN FieldScore ELSE 0)
             + (IF rl # <<>> THEN FieldScore ELSE 0)
             + (IF email # <<>> /\ Contains(email, <<"@">>) THEN FieldScore ELSE 0)
  IN  IntStr(score) \o <<"%">>

\* f"{score}%"
calculate_confidence_score(nm, rl, co, email) ==
  LET score == (IF nm # <<>> THEN FieldScore ELSE 0)
             + (IF rl # <<>> THEN FieldScore ELSE 0)
             + (IF co # <<>> THEN FieldScore ELSE 0)
             + (IF email # <<>> /\ Contains(email, <<"@">>) THEN FieldScore ELSE 0)
  IN  IntStr(score) \o <<"%">>

\* https?://(?:www\.)?([^/]+)
extract_domain_from_url(url) ==
  Group1(ReSearchGroup(Cat(<<Lit(<<"h","t","t","p">>), Opt(Ch("s")), Lit(<<":","/","/">>),
                             Opt(Lit(<<"w","w","w",".">>))>>),
                       Plus(Cls(AnyCh \ {"/"})), Empty, url), url)

guess_email(nm, dom) ==
  IF nm = <<>> \/ dom = <<>> \/ Contains(dom, <<"l","i","n","k","e","d","i","n">>) THEN <<>>
  ELSE LET name_parts == SplitWs(Lower(nm))
       IN  IF Len(name_parts) >= 2
             THEN name_parts[1] \o <<".">> \o name_parts[Len(name_parts)] \o <<"@">> \o dom
           ELSE IF Len(name_parts) = 1
             THEN name_parts[1] \o <<"@">> \o dom
           ELSE <<>>


(***************************************************************************)
(* Summary                                                                  *)
(***************************************************************************)
\* re.findall of a pattern with one group that spans it: group 1 of each of
\* the matches found left to right, none overlapping the one before
RECURSIVE FindAllFrom(_, _, _, _, _)
RECURSIVE FindAllAfter(_, _, _, _, _)

FindAllFrom(pre, grp, suf, s, from) ==
  FindAllAfter(MatchAt(pre, grp, suf, s, from), pre, grp, suf, s)

\* the match m and the matches after it
FindAllAfter(m, pre, grp, suf, s) ==
  IF ~m.found THEN <<>>
  ELSE <<Group1(m, s)>>
         \o FindAllFrom(pre, grp, suf, s, IF m.end > m.start THEN m.end ELSE m.end + 1)

\* key_terms, each the alternatives of its group between two \b
key_terms ==
  << Alt(<<Cat(<<Ws(<<"v","e","n","d","o","r">>), Lit(<<"o","n","b","o","a","r","d","i","n","g">>)>>), Lit(<<"p","r","o","c","u","r","e","m","e","n","t">>), Lit(<<"s","o","u","r","c","i","n","g">>)>>),
     Alt(<<Cat(<<Ws(<<"b","u","s","i","n","e","s","s">>), Lit(<<"d","e","v","e","l","o","p","m","e","n","t">>)>>), Lit(<<"s","a","l","e","s">>), Lit(<<"m","a","r","k","e","t","i","n","g">>)>>),
     Alt(<<Cat(<<Ws(<<"h","u","m","a","n">>), Lit(<<"r","e","s","o","u","r","c","e","s">>)>>), Lit(<<"h","r">>), Lit(<<"r","e","c","r","u","i","t","m","e","n","t">>)>>),
     Alt(<<Lit(<<"f","i","n","a","n","c","e">>), Lit(<<"a","c","c","o","u","n","t","i","n","g">>), Lit(<<"f","i","n","a","n","c","i","a","l">>)>>),
     Alt(<<Lit(<<"t","e","c","h","n","o","l","o","g","y">>), Lit(<<"s","o","f","t","w","a","r","e">>), Lit(<<"e","n","g","i","n","e","e","r","i","n","g">>)>>),
     Alt(<<Lit(<<"o","p","e","r","a","t","i","o","n","s">>), Lit(<<"l","o","g","i","s","t","i","c","s">>), Cat(<<Ws(<<"s","u","p","p","l","y">>), Lit(<<"c","h","a","i","n">>)>>)>>) >>

\* set(phrases): under re.IGNORECASE the lowered text is matched, and title()
\* of a match does not depend on the case it was written in
PhraseSet(text) ==
  { Title(p) : p \in UNION { Range(FindAllFrom(WordB, key_terms[k], WordB, Lower(text), 1))
                               : k \in DOMAIN key_terms } }

\* the values list(set(phrases))[:3][:2] can take: a set is listed in no
\* fixed order, so any two distinct phrases in either order, or the only one
KeyPhrasePairs(text) ==
  LET ps == PhraseSet(text)
  IN  IF ps = {} THEN {<<>>}
      ELSE IF Cardinality(ps) = 1 THEN { <<p>> : p \in ps }
      ELSE { <<p, q>> : p \in ps, q \in ps } \ { <<p, p>> : p \in ps }

\* the values create_enhanced_summary can return
create_enhanced_summary(nm, rl, co, snip) ==
  LET head ==
        IF rl # <<>> /\ co # <<>> THEN <<rl \o <<" ","a","t"," ">> \o co>>
        ELSE IF rl # <<>> THEN <<rl>>
        ELSE IF co # <<>> THEN <<<<"P","r","o","f","e","s","s","i","o","n","a","l"," ","a","t"," ">> \o co>>
        ELSE <<>>
      Parts(pair) ==
        IF snip # <<>> /\ pair # <<>>
          THEN head \o <<<<"bullet", " ">> \o Join(<<","," ">>, pair)>>
          ELSE head
  IN  { IF Parts(pair) # <<>> THEN Join(<<" ","|"," ">>, Parts(pair)) ELSE <<"P","r","o","f","e","s","s","i","o","n","a","l"," ","P","r","o","f","i","l","e">>
          : pair \in KeyPhrasePairs(snip) }


(***************************************************************************)
(* The two network helpers.  net is what the GET does: it raises (a         *)
(* connection error, a timeout), or it returns a response.                  *)
(***************************************************************************)
NetRaise == [kind |-> "raise"]

\* no request was issued
NoResponse == [kind |-> "none"]

PageResponse(status, ctype, text) ==
  [kind |-> "response", status_code |-> status, content_type |-> ctype, text |-> text]

LINKEDIN_COM == <<"l","i","n","k","e","d","i","n",".","c","o","m">>

LINKEDIN_PROFILE == <<"l","i","n","k","e","d","i","n",".","c","o","m","/","i","n","/">>

\* the status code of a successful response
HTTP_OK == 200

\* the operands of or taken in the other order
OrLast(a, b) == IF b # <<>> THEN b ELSE a

\* a or b, of two str
Or(a, b) == IF a # <<>> THEN a ELSE b

\* what fetch_emails_and_phone_from_url returns, with the number of GETs it
\* issued and whether its except clause ran
FetchResult(email, ph, gets, wn) ==
  [email |-> email, phone |-> ph, gets |-> gets, warned |-> wn]

\* the fetch when the status code is not looked at
fetch_any_status(url, net) ==
  IF Contains(url, LINKEDIN_COM) THEN FetchResult(<<>>, <<>>, 0, FALSE)
  ELSE IF net.kind = "raise" THEN FetchResult(<<>>, <<>>, 1, TRUE)
  ELSE FetchResult(extract_email_from_text(Str(net.text)).val,
                   extract_phone_from_text(Str(net.text)).val, 1, FALSE)

\* the fetch when only a profile link is skipped
fetch_skipping_profiles(url, net) ==
  IF Contains(url, LINKEDIN_PROFILE) THEN FetchResult(<<>>, <<>>, 0, FALSE)
  ELSE IF net.kind = "raise" THEN FetchResult(<<>>, <<>>, 1, TRUE)
  ELSE IF net.status_code = HTTP_OK
    THEN FetchResult(extract_email_from_text(Str(net.text)).val,
                     extract_phone_from_text(Str(net.text)).val, 1, FALSE)
  ELSE FetchResult(<<>>, <<>>, 1, FALSE)

\* the fetch when no link is skipped
fetch_without_skip(url, net) ==
  IF net.kind = "raise" THEN FetchResult(<<>>, <<>>, 1, TRUE)
  ELSE IF net.status_code = HTTP_OK
    THEN FetchResult(extract_email_from_text(Str(net.text)).val,
                     extract_phone_from_text(Str(net.text)).val, 1, FALSE)
  ELSE FetchResult(<<>>, <<>>, 1, FALSE)

\* lines 33-46
fetch_emails_and_phone_from_url(url, net) ==
  IF Contains(url, LINKEDIN_COM) THEN FetchResult(<<>>, <<>>, 0, FALSE)
  ELSE IF net.kind = "raise" THEN FetchResult(<<>>, <<>>, 1, TRUE)
  ELSE IF net.status_code = HTTP_OK
    THEN FetchResult(extract_email_from_text(Str(net.text)).val,
                     extract_phone_from_text(Str(net.text)).val, 1, FALSE)
  ELSE FetchResult(<<>>, <<>>, 1, FALSE)

\* a JSON object is a function from its keys; d.get(k, default)
Get(d, k, default) == IF k \in DOMAIN d THEN d[k] ELSE default

EmptyObject == [k \in {} |-> <<>>]

EnrichResponse(status, json_ok, data) ==
  [kind |-> "response", status_code |-> status, json_ok |-> json_ok, data |-> data]

EmptyEnrichment ==
  [role |-> <<>>, company |-> <<>>, location |-> <<>>, summary |-> <<>>]

\* the 200 of data.get("summary", "")[:200]
SummaryLimit == 200

\* the dictionary enrich_with_proxycurl builds from the parsed body; str + str
\* raises TypeError when city or country is null
EnrichmentOf(data) ==
  LET experiences == Get(data, "experiences", <<>>)
      current_pos == IF experiences # <<>> THEN experiences[1] ELSE EmptyObject
      city == Get(data, "city", Str(<<>>))
      country == Get(data, "country", Str(<<>>))
      summ == Get(data, "summary", <<>>)
  IN  IF city.kind # "str" \/ country.kind # "str" THEN Raise
      ELSE Ret([role |-> Get(current_pos, "title", <<>>),
                company |-> Get(current_pos, "company", <<>>),
                location |-> city.text \o <<","," ">> \o country.text,
                summary |-> IF summ # <<>>
                              THEN Slice(summ, 1, SummaryLimit + 1) \o <<".",".",".">>
                              ELSE <<>>])

EnrichResult(record, gets, wn) ==
  [record |-> record, gets |-> gets, warned |-> wn]

\* the enrichment when the key is not looked at
enrich_without_key_check(key, linkedin_url, net) ==
  IF ~Contains(linkedin_url, LINKEDIN_PROFILE)
    THEN EnrichResult(EmptyEnrichment, 0, FALSE)
  ELSE IF net.kind = "raise" THEN EnrichResult(EmptyEnrichment, 1, TRUE)
  ELSE IF net.status_code # HTTP_OK THEN EnrichResult(EmptyEnrichment, 1, FALSE)
  ELSE IF ~net.json_ok \/ ~EnrichmentOf(net.data).ok
    THEN EnrichResult(EmptyEnrichment, 1, TRUE)
  ELSE EnrichResult(EnrichmentOf(net.data).val, 1, FALSE)

\* the enrichment when any link that names linkedin.com passes the guard
enrich_any_linkedin_link(key, linkedin_url, net) ==
  IF key = <<>> \/ ~Contains(linkedin_url, LINKEDIN_COM)
    THEN EnrichResult(EmptyEnrichment, 0, FALSE)
  ELSE IF net.kind = "raise" THEN EnrichResult(EmptyEnrichment, 1, TRUE)
  ELSE IF net.status_code # HTTP_OK THEN EnrichResult(EmptyEnrichment, 1, FALSE)
  ELSE IF ~net.json_ok \/ ~EnrichmentOf(net.data).ok
    THEN EnrichResult(EmptyEnrichment, 1, TRUE)
  ELSE EnrichResult(EnrichmentOf(net.data).val, 1, FALSE)

\* lines 49-72
enrich_with_proxycurl(key, linkedin_url, net) ==
  IF key = <<>> \/ ~Contains(linkedin_url, LINKEDIN_PROFILE)
    THEN EnrichResult(EmptyEnrichment, 0, FALSE)
  ELSE IF net.kind = "raise" THEN EnrichResult(EmptyEnrichment, 1, TRUE)
  ELSE IF net.status_code # HTTP_OK THEN EnrichResult(EmptyEnrichment, 1, FALSE)
  ELSE IF ~net.json_ok \/ ~EnrichmentOf(net.data).ok
    THEN EnrichResult(EmptyEnrichment, 1, TRUE)
  ELSE EnrichResult(EnrichmentOf(net.data).val, 1, FALSE)


(***************************************************************************)
(* Inputs: the configuration, the search response and what the page and     *)
(* enrichment requests do.                                                  *)
(***************************************************************************)
\* the most organic results a search response holds
MaxResults == 2

\* a credential that is set
KEY == <<"k">>

Keys == {<<>>, KEY}

Result(ttl, url, snip) == [title |-> ttl, link |-> url, snippet |-> snip]

SearchResults ==
  { \* an e-mail address in the snippet
    Result(Str(<<"J","a","n","e"," ","D","o","e"," ","-"," ","H","R"," ","M","a","n","a","g","e","r"," ","a","t"," ","A","c","m","e"," ","P","v","t"," ","L","t","d">>), <<"h","t","t","p","s",":","/","/","a","c","m","e",".","c","o","m","/","t","e","a","m","/","j","a","n","e">>,
           Str(<<"C","o","n","t","a","c","t",":"," ","j","a","n","e",".","d","o","e","@","a","c","m","e",".","c","o","m">>)),
    \* a profile whose title gives role and company
    Result(Str(<<"J","o"," ","D","o"," ","-"," ","C","t","o"," ","a","t"," ","A","b">>), <<"h","t","t","p","s",":","/","/","w","w","w",".","l","i","n","k","e","d","i","n",".","c","o","m","/","i","n","/","j","o">>, Str(<<>>)),
    \* a profile whose title gives neither
    Result(Str(<<"A","m","y"," ","L","e","e">>), <<"h","t","t","p","s",":","/","/","l","i","n","k","e","d","i","n",".","c","o","m","/","i","n","/","a","m","y">>, Str(<<>>)),
    \* no contact in the snippet, a page to fetch
    Result(Str(<<"B","o","b"," ","R","a","y">>), <<"h","t","t","p","s",":","/","/","a","b",".","c","o","/","b","o","b">>, Str(<<>>)),
    \* a phone number in the snippet, no name
    Result(Str(<<>>), <<"h","t","t","p","s",":","/","/","a","b",".","c","o","/","x">>, Str(<<"c","a","l","l"," ","+","1"," ","5","5","5"," ","1","2","3"," ","4","5","6","7">>)),
    \* a profile address scraped as an e-mail address
    Result(Str(<<>>), <<"h","t","t","p","s",":","/","/","a","b",".","c","o","/","y">>, Str(<<"i","n","@","l","i","n","k","e","d","i","n",".","c","o","m">>)),
    \* linkedin.com in the link of another site, two key phrases in the snippet
    Result(Str(<<"B","o","b"," ","R","a","y">>), <<"h","t","t","p","s",":","/","/","a","b",".","c","o","/","?","u","=","l","i","n","k","e","d","i","n",".","c","o","m">>, Str(<<"s","a","l","e","s"," ","a","n","d"," ","m","a","r","k","e","t","i","n","g">>)),
    \* fields that are no str
    Result(Str(<<"A","l"," ","Y","u">>), <<"h","t","t","p","s",":","/","/","a","b",".","c","o","/","a","l">>, Null),
    Result(Num(<<"7">>), <<"h","t","t","p","s",":","/","/","a","b",".","c","o","/","z">>, Str(<<>>)),
    Result(Null, <<"h","t","t","p","s",":","/","/","a","b",".","c","o","/","?","n","=","l","i","n","k","e","d","i","n",".","c","o","m">>, Str(<<>>)) }

\* the lists of at most n results
ResultLists(n) == UNION { [1..m -> SearchResults] : m \in 0..n }

SearchResponse(json_ok, data) == [kind |-> "response", json_ok |-> json_ok, data |-> data]

\* the search GET raises, or answers a body that is no JSON, or an object
\* without organic_results, or one with them
SearchOutcomes ==
  {NetRaise, SearchResponse(FALSE, EmptyObject), SearchResponse(TRUE, EmptyObject)}
    \cup { SearchResponse(TRUE, [k \in {"organic_results"} |-> rs]) : rs \in ResultLists(MaxResults) }

\* the page GET raises, or answers a page, or a body that is no page, or an
\* error status
PageOutcomes ==
  { NetRaise,
    PageResponse(200, "text/html", <<"m","e","@","l","i","n","k","e","d","i","n",".","c","o","m"," ","5","5","5","-","1","2","3","-","4","5","6","7">>),
    PageResponse(200, "application/json", <<"a","p","i","@","a","b",".","c","o">>),
    PageResponse(404, "text/html", <<"g","o","n","e","@","a","b",".","c","o">>) }

Experience(ttl, co) == [k \in {"title", "company"} |-> IF k = "title" THEN ttl ELSE co]

Profile(experiences, city) ==
  [k \in {"experiences", "city", "country", "summary"} |->
     CASE k = "experiences" -> experiences
       [] k = "city"        -> city
       [] k = "country"     -> Str(<<"I","N">>)
       [] k = "summary"     -> <<"O","p","s">>]

EnrichOutcomes ==
  { NetRaise,
    EnrichResponse(200, TRUE, Profile(<<Experience(<<"V","p">>, <<"Z","e","d">>)>>, Str(<<"P","u","n","e">>))),
    EnrichResponse(200, TRUE, Profile(<<>>, Str(<<>>))),
    EnrichResponse(200, TRUE, Profile(<<Experience(<<"V","p">>, <<"Z","e","d">>)>>, Null)),
    EnrichResponse(200, FALSE, EmptyObject),
    EnrichResponse(403, TRUE, EmptyObject) }

config == <<SERPAPI_KEY, PROXYCURL_API_KEY>>

counters == <<search_gets, page_gets, enrich_gets, warned>>

locals ==
  <<title, link, snippet, name, role, company, email_from_snippet, phone_from_snippet,
    page_response, email_from_page, phone_from_page, domain, guessed_email, final_email,
    phone, summary, enriched_data>>

session == <<exclude_domains, current_leads, search_history>>

vars == <<config, pc, exc, reported, counters, results, i, locals, leads, session>>

\* nothing assigned yet
InitLocals ==
  /\ title = Str(<<>>) /\ link = <<>> /\ snippet = Str(<<>>)
  /\ name = <<>> /\ role = <<>> /\ company = <<>>
  /\ email_from_snippet = <<>> /\ phone_from_snippet = <<>>
  /\ page_response = NoResponse /\ email_from_page = <<>> /\ phone_from_page = <<>>
  /\ domain = <<>> /\ guessed_email = <<>> /\ final_email = <<>> /\ phone = <<>>
  /\ summary = <<>> /\ enriched_data = EmptyEnrichment

InitCounters == search_gets = 0 /\ page_gets = 0 /\ enrich_gets = 0 /\ warned = {}

\* the script has loaded the credentials and the search button is pressed
Init ==
  /\ SERPAPI_KEY \in Keys
  /\ PROXYCURL_API_KEY \in Keys
  /\ pc = "start"
  /\ exc = "" /\ reported = FALSE
  /\ InitCounters
  /\ results = <<>> /\ i = 0
  /\ InitLocals
  /\ leads = <<>>
  /\ exclude_domains = <<>> /\ current_leads = <<>> /\ search_history = <<>>

(***************************************************************************)
(* get_leads_from_serpapi                                                   *)
(***************************************************************************)
\* lines 77-79: without the search key, st.error and st.stop
Start ==
  /\ pc = "start"
  /\ IF SERPAPI_KEY = <<>>
       THEN reported' = TRUE /\ pc' = "stopped"
       ELSE reported' = reported /\ pc' = "search"
  /\ UNCHANGED <<config, exc, counters, results, i, locals, leads, session>>

\* lines 90-95: the search GET and response.json(), neither inside a try
Search ==
  /\ pc = "search"
  /\ \E net \in SearchOutcomes :
       /\ search_gets' = search_gets + 1
       /\ IF net.kind = "raise"
            THEN pc' = "raised" /\ exc' = "requests.get" /\ UNCHANGED <<results, i>>
          ELSE IF ~net.json_ok
            THEN pc' = "raised" /\ exc' = "response.json" /\ UNCHANGED <<results, i>>
          ELSE /\ results' = Get(net.data, "organic_results", <<>>)
               /\ i' = 1
               /\ pc' = IF results' = <<>> THEN "done" ELSE "extract"
               /\ exc' = exc
  /\ UNCHANGED <<config, reported, page_gets, enrich_gets, warned, locals, leads, session>>

\* lines 100-111 for result i: the fields, the heuristics and the snippet's contacts
Extract ==
  /\ pc = "extract"
  /\ title' = results[i].title
  /\ link' = results[i].link
  /\ snippet' = results[i].snippet
  /\ \E n \in {extract_name(title', snippet')}, e \in {extract_email_from_text(snippet')} :
       IF ~n.ok
         THEN /\ pc' = "raised" /\ exc' = "extract_name"
              /\ UNCHANGED <<name, role, company, email_from_snippet, phone_from_snippet>>
       ELSE /\ name' = n.val
            /\ role' = clean_role(title', snippet')
            /\ company' = clean_company(title', snippet')
            /\ IF ~e.ok
                 THEN /\ pc' = "raised" /\ exc' = "extract_email_from_text"
                      /\ UNCHANGED <<email_from_snippet, phone_from_snippet>>
                 ELSE /\ email_from_snippet' = e.val
                      /\ phone_from_snippet' = extract_phone_from_text(snippet').val
                      /\ pc' = "fetch" /\ exc' = exc
  /\ page_gets' = 0 /\ enrich_gets' = 0 /\ warned' = {}
  /\ UNCHANGED <<config, reported, search_gets, results, i, page_response, email_from_page,
                 phone_from_page,
                 domain, guessed_email, final_email, phone, summary, enriched_data,
                 leads, session>>

\* lines 112-121: the page fetch, the guess, the merge and the summary
Fetch ==
  /\ pc = "fetch"
  /\ \E net \in PageOutcomes : \E page \in {fetch_emails_and_phone_from_url(link, net)} :
       /\ page_response' = IF page.gets = 0 THEN NoResponse ELSE net
       /\ email_from_page' = page.email
       /\ phone_from_page' = page.phone
       /\ page_gets' = page_gets + page.gets
       /\ warned' = IF page.warned THEN warned \cup {"page"} ELSE warned
  /\ domain' = extract_domain_from_url(link)
  /\ guessed_email' = IF name # <<>> /\ domain' # <<>> THEN guess_email(name, domain') ELSE <<>>
  /\ final_email' = Or(Or(email_from_snippet, email_from_page'), guessed_email')
  /\ phone' = Or(phone_from_snippet, phone_from_page')
  /\ summary' \in create_enhanced_summary(name, role, company, snippet.text)
  /\ pc' = "enrich"
  /\ UNCHANGED <<config, exc, reported, search_gets, enrich_gets, results, i, title, link,
                 snippet, name, role, company, email_from_snippet, phone_from_snippet,
                 enriched_data, leads, session>>

\* the 150 of snippet[:150]
SnippetLimit == 150

\* snippet[:150] + "..." if len(snippet) > 150 else snippet
SnippetField(s) ==
  IF Len(s) > SnippetLimit THEN Slice(s, 1, SnippetLimit + 1) \o <<".",".",".">> ELSE s

\* the clean-up when only a profile address is dropped
SuppressProfilesOnly(email) == IF Contains(email, LINKEDIN_PROFILE) THEN <<>> ELSE email

\* final_email after lines 131-132
Suppress(email) == IF Contains(email, LINKEDIN_COM) THEN <<>> ELSE email

\* lines 124-145: the enrichment, the clean-up of the e-mail address and the lead
Enrich ==
  /\ pc = "enrich"
  /\ \E e \in { IF Contains(link, LINKEDIN_COM)
                   THEN enrich_with_proxycurl(PROXYCURL_API_KEY, link, net)
                   ELSE EnrichResult(EmptyEnrichment, 0, FALSE) : net \in EnrichOutcomes } :
       /\ enriched_data' = e.record
       /\ enrich_gets' = enrich_gets + e.gets
       /\ warned' = IF e.warned THEN warned \cup {"proxycurl"} ELSE warned
  /\ role' = IF Contains(link, LINKEDIN_COM) THEN Or(role, enriched_data'.role) ELSE role
  /\ company' = IF Contains(link, LINKEDIN_COM)
                  THEN Or(company, enriched_data'.company) ELSE company
  /\ final_email' = Suppress(final_email)
  /\ leads' = Append(leads,
       [Name |-> name, Role |-> role', Company |-> company',
        Location |-> enriched_data'.location, LinkedIn_URL |-> link,
        Email |-> final_email', Phone |-> phone, Summary |-> summary,
        Snippet |-> SnippetField(snippet.text),
        Confidence |-> calculate_confidence_score(name, role', company', final_email')])
  /\ IF i < Len(results)
       THEN i' = i + 1 /\ pc' = "extract"
       ELSE i' = i /\ pc' = "done"
  /\ UNCHANGED <<config, exc, reported, search_gets, page_gets, results, title, link, snippet,
                 name, email_from_snippet, phone_from_snippet, page_response,
                 email_from_page, phone_from_page, domain, guessed_email, phone, summary, session>>

Next == Start \/ Search \/ Extract \/ Fetch \/ Enrich

Spec == Init /\ [][Next]_vars


(***************************************************************************)
(* The main script after get_leads_from_serpapi returned: the               *)
(* exclude-domains filter and the session state.                            *)
(***************************************************************************)
\* re.compile of "|".join(excluded): the alternatives between the bars, in
\* each a dot is any character but a newline and any other character of the
\* texts drawn here (letters, digits, space, comma, hyphen) is itself
CompileAtom(c) == IF c = "." THEN Cls(AnyCh \ {"newline"}) ELSE Ch(c)

CompileAlternative(w) == Cat([k \in 1..Len(w) |-> CompileAtom(w[k])])

CompilePattern(pattern) ==
  Alt([k \in 1..Len(SplitOn(pattern, <<"|">>)) |->
         CompileAlternative(SplitOn(pattern, <<"|">>)[k])])

\* [d.strip() for d in exclude_domains.split(",")]
ExcludedOf(text) ==
  [k \in 1..Len(SplitOn(text, <<",">>)) |-> Strip(SplitOn(text, <<",">>)[k])]

\* Series.str.contains(pat) of one link: re.search(pat, link) finds a match
StrContains(url, pattern) == ReSearch(CompilePattern(pattern), url).found

\* lines 372-374: the rows kept, in their order
FilterExcluded(df, text) ==
  IF text = <<>> THEN df
  ELSE SelectSeq(df,
         LAMBDA row : ~StrContains(row.LinkedIn_URL, Join(<<"|">>, ExcludedOf(text))))

\* the 10 of search_history[:10]
HistoryLimit == 10

\* the value of the prompt field
prompt == <<"F","i","n","d"," ","v","e","n","d","o","r"," ","o","n","b","o","a","r","d","i","n","g"," ","s","p","e","c","i","a","l","i","s","t","s"," ","a","t"," ","M","N","C"," ","c","o","m","p","a","n","i","e","s"," ","i","n"," ","I","n","d","i","a">>

\* save_search_to_history, without the timestamp of the entry
SaveSearchToHistory(history, query, results_count) ==
  Slice(<<[query |-> query, results |-> results_count]>> \o history, 1, HistoryLimit + 1)

\* lines 368-377 and 444-445
MainFilter ==
  /\ pc = "done"
  /\ IF leads # <<>>
       THEN /\ current_leads' = FilterExcluded(leads, exclude_domains)
            /\ search_history' = SaveSearchToHistory(search_history, prompt, Len(current_leads'))
            /\ pc' = "shown"
       ELSE /\ pc' = "no_leads"
            /\ UNCHANGED <<current_leads, search_history>>
  /\ UNCHANGED <<config, exc, reported, counters, results, i, locals, leads, exclude_domains>>

\* the most leads of a batch handed to the filter
MaxBatch == 2

\* the lead of a result that has only a link, when its page gives nothing
LeadOfLink(url) ==
  [Name |-> <<>>, Role |-> <<>>, Company |-> <<>>, Location |-> <<>>,
   LinkedIn_URL |-> url, Email |-> <<>>, Phone |-> <<>>,
   Summary |-> <<"P","r","o","f","e","s","s","i","o","n","a","l"," ","P","r","o","f","i","l","e">>, Snippet |-> <<>>,
   Confidence |-> calculate_confidence_score(<<>>, <<>>, <<>>, <<>>)]

FilterLinks ==
  { <<"h","t","t","p","s",":","/","/","s","p","a","m",".","c","o","m","/","x">>, <<"h","t","t","p","s",":","/","/","S","P","A","M",".","c","o","m","/","x">>, <<"h","t","t","p","s",":","/","/","s","p","a","m","x","c","o","m",".","n","e","t","/">>,
    <<"h","t","t","p","s",":","/","/","a","b",".","c","o","/","b">>, <<"h","t","t","p","s",":","/","/","a","c","m","e",".","c","o","m","/">> }

ExcludeTexts ==
  { <<>>, <<"s","p","a","m",".","c","o","m">>, <<"s","p","a","m",".","c","o","m",","," ","a","b",".","c","o">>, <<"a","b",".","c","o",",">>, <<"A","c","m","e",".","c","o","m">> }

Batches(n) == UNION { [1..m -> { LeadOfLink(u) : u \in FilterLinks }] : m \in 0..n }

\* get_leads_from_serpapi has returned a batch, and the field holds a text
InitFilter ==
  /\ SERPAPI_KEY = KEY
  /\ PROXYCURL_API_KEY \in Keys
  /\ pc = "done"
  /\ exc = "" /\ reported = FALSE
  /\ InitCounters
  /\ results = <<>> /\ i = 0
  /\ InitLocals
  /\ leads \in Batches(MaxBatch)
  /\ exclude_domains \in ExcludeTexts
  /\ current_leads = <<>> /\ search_history = <<>>

SpecFilter == InitFilter /\ [][MainFilter]_vars


(***************************************************************************)
(* Properties of get_leads_from_serpapi and of the exclude filter.          *)
(***************************************************************************)
\* the locals are those of the lead appended last
Assembled == pc \in {"extract", "done"} /\ leads # <<>>

\* the page fetch of the current result has returned
AfterFetch == pc = "enrich" \/ Assembled

LastLead == leads[Len(leads)]

\* C1: the Email of every lead produced is empty or does not contain
\* "linkedin.com", whatever the snippet, the page and the guess gave.
C1_EmailNeverNamesLinkedin ==
  \A k \in DOMAIN leads :
    leads[k].Email = <<>> \/ ~Contains(leads[k].Email, LINKEDIN_COM)

\* a lead whose snippet gave an address at linkedin.com, and whose Email is empty
C1_Witness ==
  /\ Assembled
  /\ Contains(email_from_snippet, LINKEDIN_COM)
  /\ LastLead.Email = <<>>

\* s.rstrip(c)
RECURSIVE RStripCh(_, _)
RStripCh(s, c) ==
  IF s # <<>> /\ s[Len(s)] = c THEN RStripCh(SubSeq(s, 1, Len(s) - 1), c) ELSE s

\* the number a Confidence text stands for, read as line 390 reads it
ConfidenceOf(lead) == ParseInt(RStripCh(lead.Confidence, "%"))

\* the fields of a lead that count: name, role, company, and an Email with "@"
PresentFields(lead) ==
  Cardinality({f \in {"Name", "Role", "Company"} : lead[f] # <<>>})
    + (IF Contains(lead.Email, <<"@">>) THEN 1 ELSE 0)

\* C2: the Confidence of every lead is a multiple of 25 from 0 to 100, and is
\* 25 times the number of non-empty fields among the lead's name, role and
\* company (after the enrichment filled them) and its Email (after the
\* clean-up, counted when it holds "@").
C2_ConfidenceCountsFields ==
  \A k \in DOMAIN leads :
    /\ ConfidenceOf(leads[k]) \in {0, 25, 50, 75, 100}
    /\ ConfidenceOf(leads[k]) = 25 * PresentFields(leads[k])
    /\ leads[k].Confidence # RStripCh(leads[k].Confidence, "%")

\* a lead whose role and company came from the enrichment and that has no
\* address: three fields count
C2_Witness ==
  /\ Assembled
  /\ enriched_data.role # <<>> /\ LastLead.Role = enriched_data.role
  /\ enriched_data.company # <<>> /\ LastLead.Company = enriched_data.company
  /\ LastLead.Name # <<>> /\ LastLead.Email = <<>>
  /\ ConfidenceOf(LastLead) = 75

\* the excluded domains the text of the field names
ExcludedSet == IF exclude_domains = <<>> THEN {} ELSE Range(ExcludedOf(exclude_domains))

\* the link holds an excluded domain, whatever the case of the letters
MatchesExcluded(lead) ==
  \E d \in ExcludedSet : Contains(Lower(lead.LinkedIn_URL), Lower(d))

\* C3: the filtered leads are exactly the leads whose link holds none of the
\* excluded domains as a case-insensitive substring, in the order of the batch.
C3_FilterKeepsExactlyTheUnmatched ==
  pc = "shown" =>
    current_leads = SelectSeq(leads, LAMBDA lead : ~MatchesExcluded(lead))

\* C4: nothing but the missing search credential stops the batch: no exception
\* leaves get_leads_from_serpapi, and a finished batch has a lead for every
\* result.
C4_OnlyMissingCredentialHalts ==
  /\ pc # "raised"
  /\ pc = "done" => Len(leads) = Len(results)

PageFailed ==
  \/ page_response.kind = "raise"
  \/ page_response.kind = "response" /\ page_response.status_code # 200

PageNotHtml ==
  page_response.kind = "response" /\ page_response.content_type # "text/html"

PagePairEmpty == email_from_page = <<>> /\ phone_from_page = <<>>

C6_MissingKeys ==
  /\ SERPAPI_KEY = <<>> =>
       /\ search_gets = 0 /\ leads = <<>>
       /\ pc \in {"start", "stopped"}
       /\ pc = "stopped" => reported
  /\ SERPAPI_KEY # <<>> /\ PROXYCURL_API_KEY = <<>> =>
       /\ ~reported
       /\ enrich_gets = 0 /\ enriched_data = EmptyEnrichment /\ "proxycurl" \notin warned
       /\ pc \in {"fetch", "enrich"} => Len(leads) = i - 1
       /\ pc = "done" => Len(leads) = Len(results)

\* a finished batch of two leads, one of a profile link, without the enrichment key
C6_Witness ==
  /\ SERPAPI_KEY # <<>> /\ PROXYCURL_API_KEY = <<>>
  /\ pc = "done" /\ Len(leads) = 2
  /\ \E k \in DOMAIN leads : Contains(leads[k].LinkedIn_URL, LINKEDIN_PROFILE)

\* the first non-empty of the snippet's, the page's and the guessed address
FirstEmail ==
  IF email_from_snippet # <<>> THEN email_from_snippet
  ELSE IF email_from_page # <<>> THEN email_from_page
  ELSE guessed_email

FirstPhone == IF phone_from_snippet # <<>> THEN phone_from_snippet ELSE phone_from_page

\* C7: before the clean-up the address of a result is the first non-empty of
\* the snippet's, the page's and the guessed one, and its number is the
\* snippet's if that is non-empty and the page's otherwise; the lead carries
\* them, the address unless the clean-up dropped it.
C7_FirstNonEmptyWins ==
  /\ pc = "enrich" => final_email = FirstEmail /\ phone = FirstPhone
  /\ Assembled =>
       /\ LastLead.Email = (IF Contains(FirstEmail, LINKEDIN_COM) THEN <<>> ELSE FirstEmail)
       /\ LastLead.Phone = FirstPhone

\* the snippet and the page both gave an address, and the lead has the snippet's
C7_Witness ==
  /\ Assembled
  /\ email_from_snippet # <<>> /\ email_from_page # <<>>
  /\ email_from_page # email_from_snippet
  /\ LastLead.Email = email_from_snippet

\* the link names linkedin.com and the snippet holds no address and no number
LinkedinWithoutSnippetContact ==
  /\ Contains(link, LINKEDIN_COM)
  /\ email_from_snippet = <<>> /\ phone_from_snippet = <<>>

\* C8: for a result whose link contains "linkedin.com" and whose snippet holds
\* no address and no number, no page GET is issued, nothing is read from the
\* page, and the lead's Email is empty or the guess made from name and domain.
C8_NoPageGetForLinkedin ==
  AfterFetch /\ LinkedinWithoutSnippetContact =>
    /\ page_gets = 0 /\ page_response = NoResponse /\ PagePairEmpty
    /\ Assembled =>
         LastLead.Email \in {<<>>, guess_email(LastLead.Name, extract_domain_from_url(link))}

\* such a result, of a link to another site, whose lead has the guessed address
C8_Witness ==
  /\ Assembled /\ LinkedinWithoutSnippetContact
  /\ LastLead.Email # <<>>

\* C9 as stated: when the snippet gave an address or a number, no page request
\* is made for the result.
C9_NoPageGetAfterSnippetContact ==
  AfterFetch /\ (email_from_snippet # <<>> \/ phone_from_snippet # <<>>) => page_gets = 0

\* C9 as amended: the page fetch is invoked for every result, whatever the
\* snippet gave: one page request is made when the link does not contain
\* "linkedin.com" and none when it does.
C9_PageGetUnlessLinkedin ==
  AfterFetch => page_gets = (IF Contains(link, LINKEDIN_COM) THEN 0 ELSE 1)

\* the snippet gave an address and a page request was answered
C9_Witness ==
  /\ pc = "enrich"
  /\ email_from_snippet # <<>>
  /\ page_gets = 1 /\ page_response.kind = "response"

\* the enrichment step leaves a role and a company that were there as they were
KeepsRoleAndCompany ==
  /\ role # <<>> => role' = role /\ leads'[Len(leads')].Role = role
  /\ company # <<>> => company' = company /\ leads'[Len(leads')].Company = company

=============================================================================
